---------------------------- MODULE Spec2Model ----------------------------
(***************************************************************************)
(* A model of the crustabri argumentation reasoner: abstract argumentation *)
(* frameworks, the grounded worklist, the auxiliary-variable complete      *)
(* encoding, the SAT abstraction, and the grounded, complete and preferred *)
(* semantics solvers as dispatched by the solve command.                   *)
(***************************************************************************)
EXTENDS Integers, Sequences, FiniteSets, TLC

\* Bounds of the frameworks drawn as inputs.
MaxArgs == 3
MaxAttacks == 4

\* the width of usize, and the largest value it holds
UsizeBits == 6

UsizeMax == 2^UsizeBits - 1

VARIABLES
    af,        \* the framework read from the input
    rev,       \* whether adjacency lists are iterated in descending id order
    problem,   \* the (query, semantics) pair of the command line
    arg,       \* the argument of a DC/DS query (-1 for SE)
    with_certificate, \* whether the certificate was asked for
    pc,        \* position of the running query
    gr,        \* work state of grounded_extension
    cc,        \* the connected component being solved
    solver,    \* the SAT solver of the running query
    mec,       \* the maximal-extension machine of the running query
    visited,   \* arguments of the components already given out
    merged,    \* the extension being concatenated, component by component
    reported,  \* the extensions the enumeration gave to its callback
    calls,     \* the calls the driver made to its machine, as far as needed
    vm,        \* a call of the id/variable map functions on its own
    bridge,    \* the external SAT solver bridge and its child process
    dyn,       \* the dynamic facade: what its last operation was
    answer     \* what the solver handed to the writing function

vars == <<af, rev, problem, arg, with_certificate, pc, gr, cc, solver, mec,
          visited, merged, reported, calls, vm, bridge, dyn, answer>>

cmdVars == <<af, rev, problem, arg, with_certificate>>

prVars == <<mec, visited, merged, reported, calls>>

libVars == <<vm, bridge, dyn>>

-----------------------------------------------------------------------------
(* Sequences and small helpers *)

Max(a, b) == IF a >= b THEN a ELSE b

Abs(l) == IF l < 0 THEN -l ELSE l

Range(s) == {s[i] : i \in 1..Len(s)}

NoDup(s) == \A i, j \in 1..Len(s) : i # j => s[i] # s[j]

RECURSIVE AscSeq(_)
AscSeq(S) ==
    IF S = {} THEN <<>>
    ELSE LET m == CHOOSE x \in S : \A y \in S : x <= y
         IN <<m>> \o AscSeq(S \ {m})

RECURSIVE DescSeq(_)
DescSeq(S) ==
    IF S = {} THEN <<>>
    ELSE LET m == CHOOSE x \in S : \A y \in S : x >= y
         IN <<m>> \o DescSeq(S \ {m})

-----------------------------------------------------------------------------
(* The framework: live argument ids, attacks, labels *)

NewAF(n, att) ==
    [args |-> 0..(n - 1), att |-> att, label |-> [i \in 0..(n - 1) |-> i]]

n_arguments(f) == Cardinality(f.args)

\* argument_set().iter(): the live arguments in id order
iter_args(f) == AscSeq(f.args)

AttackersOf(f, a) == {u \in f.args : <<u, a>> \in f.att}

AttackedBy(f, a) == {v \in f.args : <<a, v>> \in f.att}

\* iter_attacks_to / iter_attacks_from: an adjacency list in its stored order
iter_attacks_to(f, a) ==
    IF rev THEN DescSeq(AttackersOf(f, a)) ELSE AscSeq(AttackersOf(f, a))

iter_attacks_from(f, a) ==
    IF rev THEN DescSeq(AttackedBy(f, a)) ELSE AscSeq(AttackedBy(f, a))

Frameworks ==
    UNION {{NewAF(n, att) :
              att \in {A \in SUBSET ((0..(n - 1)) \X (0..(n - 1))) :
                          Cardinality(A) <= MaxAttacks}} :
           n \in 0..MaxArgs}

-----------------------------------------------------------------------------
(* Connected components: undirected reachability, sub-frameworks with ids
   re-densified from 0 and the labels of the parent *)

RECURSIVE Reach(_, _)
Reach(f, C) ==
    LET N == C \cup {v \in f.args :
                        \E u \in C : <<u, v>> \in f.att \/ <<v, u>> \in f.att}
    IN IF N = C THEN C ELSE Reach(f, N)

SubAF(f, C) ==
    LET s == AscSeq(C)
        idx(a) == (CHOOSE i \in 1..Len(s) : s[i] = a) - 1
    IN [args |-> 0..(Len(s) - 1),
        att |-> {<<idx(e[1]), idx(e[2])>> :
                    e \in {x \in f.att : x[1] \in C /\ x[2] \in C}},
        label |-> [i \in 0..(Len(s) - 1) |-> f.label[s[i + 1]]]]

connected_component_of(f, a) == SubAF(f, Reach(f, {a}))

\* argument_set().get_argument(label)
get_argument(f, l) == CHOOSE i \in f.args : f.label[i] = l

NoCC == [args |-> {}, att |-> {}, label |-> <<>>]

-----------------------------------------------------------------------------
(* Reference semantics (glossary of the specification) *)

ConflictFree(f, S) == \A u, v \in S : <<u, v>> \notin f.att

Defends(f, S, a) == \A u \in AttackersOf(f, a) : \E w \in S : <<w, u>> \in f.att

CharF(f, S) == {a \in f.args : Defends(f, S, a)}

Admissible(f, S) == ConflictFree(f, S) /\ S \subseteq CharF(f, S)

IsComplete(f, S) == ConflictFree(f, S) /\ S = CharF(f, S)

CompleteExts(f) == {S \in SUBSET f.args : IsComplete(f, S)}

PreferredExts(f) ==
    {S \in CompleteExts(f) : \A T \in CompleteExts(f) : ~(S \subseteq T /\ S # T)}

MaxAdmissible(f, S) ==
    /\ Admissible(f, S)
    /\ \A T \in SUBSET f.args : (S \subseteq T /\ S # T) => ~Admissible(f, T)

RECURSIVE Lfp(_, _)
Lfp(f, S) == IF CharF(f, S) = S THEN S ELSE Lfp(f, CharF(f, S))

GroundedRef(f) == Lfp(f, {})

-----------------------------------------------------------------------------
(* grounded_extension: the worklist *)

\* as GroundedInit, but an argument's attack on itself is not counted
GroundedInitNoSelf(f) ==
    LET n == n_arguments(f)
        cnt(a) == Len(SelectSeq(iter_attacks_to(f, a), LAMBDA u : u # a))
    IN [ext |-> SelectSeq(iter_args(f), LAMBDA a : cnt(a) = 0),
        n_processed_args |-> 0,
        defeated_args |-> [i \in 0..(n - 1) |-> FALSE],
        attacked_by |-> [i \in 0..(n - 1) |-> cnt(i)]]

\* the vectors have af.n_arguments() slots (usize::MAX in attacked_by), and
\* the slot arg.id() is written for every live argument
GroundedInit(f) ==
    LET n == n_arguments(f)
        cnt(a) == Len(iter_attacks_to(f, a))
    IN [ext |-> SelectSeq(iter_args(f), LAMBDA a : cnt(a) = 0),
        n_processed_args |-> 0,
        defeated_args |-> [i \in 0..(n - 1) |-> FALSE],
        attacked_by |-> [i \in 0..(n - 1) |->
                            IF i \in f.args THEN cnt(i) ELSE UsizeMax]]

\* attacked_by[arg.id()] = cnt panics when the id is not below the length
GroundedInitPanics(f) == \E a \in f.args : a >= n_arguments(f)

\* as DefendedLoop, but the counter is decremented before it is compared
RECURSIVE DefendedLoopEarly(_, _)
DefendedLoopEarly(st, ws) ==
    IF ws = <<>> THEN st
    ELSE LET defended == Head(ws)
         IN DefendedLoopEarly(
                IF st.attacked_by[defended] - 1 = 1
                THEN [st EXCEPT !.ext = Append(@, defended),
                                !.attacked_by[defended] = @ - 1]
                ELSE [st EXCEPT !.attacked_by[defended] = @ - 1],
                Tail(ws))

\* as DefendedLoop, but the counter is decremented also when it is 1
RECURSIVE DefendedLoopAlwaysDec(_, _)
DefendedLoopAlwaysDec(st, ws) ==
    IF ws = <<>> THEN st
    ELSE LET defended == Head(ws)
         IN DefendedLoopAlwaysDec(
                IF st.attacked_by[defended] = 1
                THEN [st EXCEPT !.ext = Append(@, defended),
                                !.attacked_by[defended] = @ - 1]
                ELSE [st EXCEPT !.attacked_by[defended] = @ - 1],
                Tail(ws))

RECURSIVE DefendedLoop(_, _)
DefendedLoop(st, ws) ==
    IF ws = <<>> THEN st
    ELSE LET defended == Head(ws)
         IN DefendedLoop(
                IF st.attacked_by[defended] = 1
                THEN [st EXCEPT !.ext = Append(@, defended)]
                ELSE [st EXCEPT !.attacked_by[defended] = @ - 1],
                Tail(ws))

\* as DefeatingLoop, but without the test of defeated_args
RECURSIVE DefeatingLoopNoFlag(_, _, _)
DefeatingLoopNoFlag(f, st, vs) ==
    IF vs = <<>> THEN st
    ELSE LET defeated == Head(vs)
         IN DefeatingLoopNoFlag(f,
                DefendedLoop([st EXCEPT !.defeated_args[defeated] = TRUE],
                             iter_attacks_from(f, defeated)),
                Tail(vs))

RECURSIVE DefeatingLoop(_, _, _)
DefeatingLoop(f, st, vs) ==
    IF vs = <<>> THEN st
    ELSE LET defeated == Head(vs)
         IN DefeatingLoop(f,
                IF ~st.defeated_args[defeated]
                THEN DefendedLoop([st EXCEPT !.defeated_args[defeated] = TRUE],
                                  iter_attacks_from(f, defeated))
                ELSE st,
                Tail(vs))

\* one iteration of the while loop
GroundedIter(f, st) ==
    [DefeatingLoop(f, st, iter_attacks_from(f, st.ext[st.n_processed_args + 1]))
        EXCEPT !.n_processed_args = @ + 1]

GroundedRunning(st) == st.n_processed_args < Len(st.ext)

-----------------------------------------------------------------------------
(* The SAT abstraction.  A solver holds its clauses and its variable count;
   models is the set of total assignments (as sets of true variables) over
   1..n_vars satisfying every clause, which is what a complete solver
   searches.  Which model a satisfiable call returns is the solver's choice. *)

SatLit(m, l) == IF l > 0 THEN l \in m ELSE (-l) \notin m

SatClause(m, cl) == \E i \in 1..Len(cl) : SatLit(m, cl[i])

NewSolver == [clauses |-> <<>>, n_vars |-> 0, models |-> {{}}]

reserve(s, n) ==
    IF n <= s.n_vars THEN s
    ELSE [s EXCEPT !.n_vars = n,
                   !.models = {m \cup e : m \in s.models,
                                          e \in SUBSET ((s.n_vars + 1)..n)}]

RECURSIVE MaxVar(_)
MaxVar(cl) == IF cl = <<>> THEN 0 ELSE Max(Abs(Head(cl)), MaxVar(Tail(cl)))

add_clause(s, cl) ==
    LET r == reserve(s, MaxVar(cl))
    IN [r EXCEPT !.clauses = Append(@, cl),
                 !.models = {m \in r.models : SatClause(m, cl)}]

RECURSIVE add_clauses(_, _)
add_clauses(s, cls) ==
    IF cls = <<>> THEN s ELSE add_clauses(add_clause(s, Head(cls)), Tail(cls))

\* the models a call to solve_under_assumptions may return (none: UNSAT)
solve_under_assumptions(s, assumptions) ==
    {m \in reserve(s, MaxVar(assumptions)).models :
        \A i \in 1..Len(assumptions) : SatLit(m, assumptions[i])}

solve(s) == solve_under_assumptions(s, <<>>)

-----------------------------------------------------------------------------
(* AuxVarCompleteConstraintsEncoder *)

MaxId == 2^(UsizeBits - 1) - 2

None == -1

NoVM == [enc |-> "none", kind |-> "none", input |-> 0, mid |-> 0, out |-> 0,
         step |-> 0]

NoBridge ==
    [main |-> "none", clauses |-> <<>>, n_vars |-> 0, n_spawned |-> 0,
     call |-> "none", assumptions |-> <<>>, before |-> <<>>,
     prev_assumptions |-> <<>>,
     writer |-> "none", to_write |-> <<>>, stdin_pipe |-> <<>>,
     stdin_open |-> FALSE,
     child |-> "none", reads_input |-> TRUE, child_in |-> <<>>,
     to_print |-> <<>>, child_out |-> <<>>, exit_status |-> 0,
     stdout_pipe |-> <<>>, stdout_read |-> <<>>, result |-> "none"]

NoLast == [op |-> "none", label |-> 0, status |-> FALSE]

NoDyn == [op |-> "none", ok |-> TRUE, label |-> 0, last |-> NoLast]

arg_id_to_solver_var(id) == ((id + 1) * 2) % 2^UsizeBits

arg_id_to_solver_disjunction_var(id) == arg_id_to_solver_var(id) - 1

\* None is -1
\* as arg_id_from_solver_var, but without the decrement
arg_id_from_solver_var_no_dec(v) == IF v % 2 = 1 THEN None ELSE v \div 2

arg_id_from_solver_var(v) == IF v % 2 = 1 THEN None ELSE (v \div 2) - 1

RECURSIVE Flatten(_)
Flatten(ss) == IF ss = <<>> THEN <<>> ELSE Head(ss) \o Flatten(Tail(ss))

\* as encode_disjunction_var_with, but the clause (-d or x_u ...) is not added
encode_disjunction_var_with_no_full_cl(f, a, disjunction_var) ==
    LET arg_var == arg_id_to_solver_var(a)
        atts == iter_attacks_to(f, a)
    IN <<(<<-arg_var, -disjunction_var>>)>>
       \o [i \in 1..Len(atts) |->
              <<disjunction_var, -arg_id_to_solver_var(atts[i])>>]

encode_disjunction_var_with(f, a, disjunction_var) ==
    LET arg_var == arg_id_to_solver_var(a)
        atts == iter_attacks_to(f, a)
    IN <<(<<-arg_var, -disjunction_var>>)>>
       \o [i \in 1..Len(atts) |->
              <<disjunction_var, -arg_id_to_solver_var(atts[i])>>]
       \o <<(<<-disjunction_var>>
             \o [i \in 1..Len(atts) |-> arg_id_to_solver_var(atts[i])])>>

encode_disjunction_var(f, a) ==
    encode_disjunction_var_with(f, a, arg_id_to_solver_disjunction_var(a))

encode_attack_constraints_for_arg(f, a) ==
    LET attacked_solver_var == arg_id_to_solver_var(a)
        atts == iter_attacks_to(f, a)
    IN [i \in 1..Len(atts) |->
           <<-attacked_solver_var, arg_id_to_solver_disjunction_var(atts[i])>>]
       \o <<(<<attacked_solver_var>>
             \o [i \in 1..Len(atts) |-> -arg_id_to_solver_disjunction_var(atts[i])])>>

encode_constraints(f, s) ==
    LET as == iter_args(f)
    IN add_clauses(reserve(s, n_arguments(f) * 2),
                   Flatten([i \in 1..Len(as) |->
                               encode_attack_constraints_for_arg(f, as[i])
                               \o encode_disjunction_var(f, as[i])]))

\* as assignment_to_extension, but without the test id < af.n_arguments()
assignment_to_extension_no_bound(m, nv, f) ==
    LET keep(v) == /\ v \in m
                   /\ arg_id_from_solver_var(v) # -1
        vs == SelectSeq([v \in 1..nv |-> v], keep)
    IN [i \in 1..Len(vs) |-> arg_id_from_solver_var(vs[i])]

assignment_to_extension(m, nv, f) ==
    LET keep(v) == /\ v \in m
                   /\ arg_id_from_solver_var(v) # -1
                   /\ arg_id_from_solver_var(v) < n_arguments(f)
        vs == SelectSeq([v \in 1..nv |-> v], keep)
    IN [i \in 1..Len(vs) |-> arg_id_from_solver_var(vs[i])]

arg_to_lit(a) == arg_id_to_solver_var(a)

-----------------------------------------------------------------------------
(* CompleteSemanticsSolver: its own copy of the encoding *)

cs_arg_id_to_solver_var(id) == ((id + 1) * 2) % 2^UsizeBits

cs_arg_id_from_solver_var(v) == IF v % 2 = 1 THEN None ELSE (v \div 2) - 1

cs_arg_id_to_solver_disjunction_var(id) == cs_arg_id_to_solver_var(id) - 1

cs_encode_disjunction_vars(f) ==
    LET as == iter_args(f)
        one(a) ==
            LET atts == iter_attacks_to(f, a)
                v == cs_arg_id_to_solver_var(a)
                d == cs_arg_id_to_solver_disjunction_var(a)
            IN <<(<<-v, -d>>)>>
               \o [i \in 1..Len(atts) |-> <<d, -cs_arg_id_to_solver_var(atts[i])>>]
               \o <<(<<-d>> \o [i \in 1..Len(atts) |->
                                   cs_arg_id_to_solver_var(atts[i])])>>
    IN Flatten([i \in 1..Len(as) |-> one(as[i])])

encode_complete_semantics_constraints(f, s) ==
    LET as == iter_args(f)
        one(a) ==
            LET atts == iter_attacks_to(f, a)
                v == cs_arg_id_to_solver_var(a)
            IN [i \in 1..Len(atts) |->
                   <<-v, cs_arg_id_to_solver_disjunction_var(atts[i])>>]
               \o <<(<<v>> \o [i \in 1..Len(atts) |->
                                  -cs_arg_id_to_solver_disjunction_var(atts[i])])>>
    IN add_clauses(add_clauses(s, cs_encode_disjunction_vars(f)),
                   Flatten([i \in 1..Len(as) |-> one(as[i])]))

-----------------------------------------------------------------------------
(* PreferredSemanticsSolver: the hooks given to the maximal-extension machine *)

NegateAll(lits) == [i \in 1..Len(lits) |-> -lits[i]]

\* split_in_extension: <<in_ext, not_in_ext>>, the literals of the arguments
\* of ids 0..n_args-1, in the order of the ids
split_in_extension(f, current, n_args) ==
    LET ids == [i \in 1..n_args |-> i - 1]
        in_ext_bool(i) == \E k \in 1..Len(current) : current[k] = i
        out_ext_bool(i) == ~in_ext_bool(i)
        lits(q) == [k \in 1..Len(q) |-> arg_to_lit(q[k])]
    IN <<lits(SelectSeq(ids, in_ext_bool)), lits(SelectSeq(ids, out_ext_bool))>>

\* as increase_current_clause, but the literals of the arguments of the
\* extension are in the clause too
increase_current_clause_all_args(f, current, selector) ==
    LET split == split_in_extension(f, current, n_arguments(f))
    IN Append(split[1] \o split[2], selector)

\* increase_current_fn: the clause it adds
increase_current_clause(f, current, selector) ==
    Append(split_in_extension(f, current, n_arguments(f))[2], selector)

\* as increase_current_assumptions, but only the negated selector is returned
increase_current_assumptions_selector_only(f, current, selector) ==
    <<-selector>>

\* increase_current_fn: the assumptions it returns
increase_current_assumptions(f, current, selector) ==
    Append(split_in_extension(f, current, n_arguments(f))[1], -selector)

\* as discard_current_clause, but the selector is not pushed
discard_current_clause_no_selector(f, current, selector) ==
    NegateAll(split_in_extension(f, current, n_arguments(f))[1])

\* discard_current_fn: the clause it adds
discard_current_clause(f, current, selector) ==
    Append(NegateAll(split_in_extension(f, current, n_arguments(f))[1]), selector)

\* as discard_maximal_clause, but negating the arguments inside current
discard_maximal_clause_in_ext(f, current, selector) ==
    Append(NegateAll(split_in_extension(f, current, n_arguments(f))[1]), selector)

\* as discard_maximal_clause, but with the literals of all the arguments
discard_maximal_clause_any_arg(f, current, selector) ==
    LET split == split_in_extension(f, current, n_arguments(f))
    IN Append(split[1] \o split[2], selector)

\* discard_maximal_fn: the clause it adds
discard_maximal_clause(f, current, selector) ==
    Append(split_in_extension(f, current, n_arguments(f))[2], selector)

-----------------------------------------------------------------------------
(* MaximalExtensionComputer.  Its file is not among the sources: the machine
   is taken from the design document (states Init, Intermediate, Maximal,
   None; one fresh selector per search round; growth clauses retired by
   asserting the selector of the round, clauses of discard_maximal locked by a
   selector whose negation stays in every later assumption set).  The hooks
   it calls are the ones above. *)

NoMEC == [state |-> "Init", current |-> <<>>, selector |-> 0,
          locked |-> <<>>, assumptions |-> <<>>]

\* the assumptions of a search that starts from nothing
BaseAssumptions(selector, locked) == <<-selector>> \o NegateAll(locked)

\* MaximalExtensionComputer::new, and the first round opened
new_maximal_extension_computer(s) ==
    LET selector == s.n_vars + 1
    IN [mec |-> [state |-> "Init", current |-> <<>>, selector |-> selector,
                 locked |-> <<>>,
                 assumptions |-> BaseAssumptions(selector, <<>>)],
        solver |-> reserve(s, selector)]

\* SAT with model m: Intermediate(m), and increase_current is called
MEC_Found(f, mc, s, m) ==
    LET current == assignment_to_extension(m, s.n_vars, f)
    IN [mec |-> [mc EXCEPT
                    !.state = "Intermediate",
                    !.current = current,
                    !.assumptions =
                        increase_current_assumptions(f, current, mc.selector)
                        \o NegateAll(mc.locked)],
        solver |-> add_clause(s, increase_current_clause(f, current, mc.selector))]

\* one call of the SAT solver under the assumptions of the machine
MEC_Search(f, mc, s) ==
    LET ms == solve_under_assumptions(s, mc.assumptions)
    IN IF ms = {}
       THEN {[mec |-> [mc EXCEPT !.state = IF mc.state = "Intermediate"
                                           THEN "Maximal" ELSE "None"],
              solver |-> s]}
       ELSE {MEC_Found(f, mc, s, m) : m \in ms}

\* the round is closed: its selector is asserted, discard_maximal is called
\* with a locked selector, and a round is opened with a fresh selector
MEC_CloseRound(f, mc, s) ==
    LET s1 == add_clause(s, <<mc.selector>>)
        lock == s1.n_vars + 1
        s2 == add_clause(s1, discard_maximal_clause(f, mc.current, lock))
        selector == s2.n_vars + 1
        locked == Append(mc.locked, lock)
    IN [mec |-> [state |-> "Init", current |-> <<>>, selector |-> selector,
                 locked |-> locked,
                 assumptions |-> BaseAssumptions(selector, locked)],
        solver |-> reserve(s2, selector)]

\* as compute_next, but a machine in None opens a round as one in Maximal
compute_next_none_reopens(f, mc, s) ==
    CASE mc.state = "None" \/ mc.state = "Maximal" ->
             LET c == MEC_CloseRound(f, mc, s)
             IN MEC_Search(f, c.mec, c.solver)
      [] OTHER -> MEC_Search(f, mc, s)

\* compute_next: the outcomes it may have, one per model the solver may give
compute_next(f, mc, s) ==
    CASE mc.state = "None" -> {[mec |-> mc, solver |-> s]}
      [] mc.state = "Maximal" ->
             LET c == MEC_CloseRound(f, mc, s)
             IN MEC_Search(f, c.mec, c.solver)
      [] OTHER -> MEC_Search(f, mc, s)

\* discard_current_search: discard_current is called, the search restarts
discard_current_search(f, mc, s) ==
    [mec |-> [mc EXCEPT !.state = "Init",
                        !.current = <<>>,
                        !.assumptions = BaseAssumptions(mc.selector, mc.locked)],
     solver |-> add_clause(s, discard_current_clause(f, mc.current, mc.selector))]

\* take_current: the machine gives its extension away
take_current(mc) == [mc EXCEPT !.current = <<>>]

\* the calls of a driver to its machine: the last one, the state in which
\* the last compute_next was called, how many take_current calls were made
\* in that state before it, how many in the present state, and how many
\* compute_next calls were made in state None
NoCalls == [last |-> "none", from |-> "none", taken_before |-> 0, taken |-> 0,
            after_none |-> 0]

CallNew == [NoCalls EXCEPT !.last = "new"]

CallComputeNext(c, from) ==
    [c EXCEPT !.last = "compute_next",
              !.from = from,
              !.taken_before = c.taken,
              !.taken = 0,
              !.after_none = IF from = "None" THEN @ + 1 ELSE @]

CallTakeCurrent(c) == [c EXCEPT !.last = "take_current", !.taken = @ + 1]

CallDiscardCurrentSearch(c) ==
    [c EXCEPT !.last = "discard_current_search", !.taken = 0]

-----------------------------------------------------------------------------
(* The solve command: which solver answers which problem *)

Queries == {"SE", "DC", "DS"}

Semantics == {"GR", "CO", "PR"}

\* compute_one_extension
SolverForSE(sem) ==
    IF sem \in {"GR", "CO"} THEN "Grounded" ELSE "Preferred"

\* as SolverForDC, but only CO goes to the complete-semantics solver
SolverForDC_OnlyCO(sem) ==
    IF sem = "CO" THEN "Complete" ELSE "Grounded"

\* check_credulous_acceptance
SolverForDC(sem) ==
    IF sem = "GR" THEN "Grounded" ELSE "Complete"

\* check_skeptical_acceptance
SolverForDS(sem) ==
    IF sem \in {"GR", "CO"} THEN "Grounded" ELSE "Preferred"

SolverFor(p) ==
    CASE p.query = "SE" -> SolverForSE(p.sem)
      [] p.query = "DC" -> SolverForDC(p.sem)
      [] OTHER -> SolverForDS(p.sem)

Problems == [query : Queries, sem : Semantics]

NoProblem == [query |-> "none", sem |-> "none"]

\* check_arg_definition: DC and DS need the argument, SE ignores it
\* what -a can be: omitted (-1), a string that names no argument of the
\* framework, or an argument
NoSuchArg == -2

ArgInputs(f) == {-1, NoSuchArg} \cup f.args

\* reader.read_arg_from_str(&af, a), for the strings that are given
read_arg_from_str_ok(a) == a # NoSuchArg

\* Ok(()) or Err: SE with an argument only warns
check_arg_definition(query, a) ==
    IF query = "SE" THEN TRUE ELSE a # -1

NoAnswer == [kind |-> "none"]

SomeExt(e) == [kind |-> "ext", ext |-> e]

Accept(b) == [kind |-> "status", status |-> b]

\* (status, None) and (status, Some(ext))
AcceptNone(b) == [kind |-> "cert", status |-> b, some |-> FALSE, ext |-> <<>>]

AcceptSome(b, e) == [kind |-> "cert", status |-> b, some |-> TRUE, ext |-> e]

NoGr == [ext |-> <<>>, n_processed_args |-> 0,
         defeated_args |-> <<>>, attacked_by |-> <<>>]

\* the command before it has read the problem: nothing is computed yet
ReadyCmd ==
    /\ rev \in BOOLEAN
    /\ problem = NoProblem
    /\ arg = -1
    /\ with_certificate = FALSE
    /\ pc = "ready"
    /\ gr = NoGr
    /\ cc = NoCC
    /\ solver = NewSolver
    /\ mec = NoMEC
    /\ visited = {}
    /\ merged = <<>>
    /\ reported = <<>>
    /\ calls = NoCalls
    /\ answer = NoAnswer

Ready ==
    /\ ReadyCmd
    /\ vm = NoVM
    /\ bridge = NoBridge
    /\ dyn = NoDyn

-----------------------------------------------------------------------------
(* GroundedSemanticsSolver, for the problems the command gives it *)

Contains(s, a) == \E i \in 1..Len(s) : s[i] = a

InitGR ==
    /\ af \in Frameworks
    /\ Ready

\* as CO_AssumptionVar, but with the id the argument has in the whole framework
CO_AssumptionVarParentId(reduced_af, f, a) == cs_arg_id_to_solver_var(a)

\* is_credulously_accepted: the literal assumed for the argument, looked up
\* by label in the reduced framework
CO_AssumptionVar(reduced_af, f, a) ==
    cs_arg_id_to_solver_var(get_argument(reduced_af, f.label[a]))

\* as PR_MergeArg, but with the id the argument has in the component
PR_MergeArgCcId(f, reduced_af, cc_arg) == cc_arg

\* self.af.argument_set().get_argument(cc_arg.label()).unwrap()
PR_MergeArg(f, reduced_af, cc_arg) == get_argument(f, reduced_af.label[cc_arg])

PR_MergeAll(f, reduced_af, ext) ==
    [i \in 1..Len(ext) |-> PR_MergeArg(f, reduced_af, ext[i])]

\* a fresh solver with the complete encoding of the component, and a machine
PR_NewComputer(reduced_af) ==
    new_maximal_extension_computer(encode_constraints(reduced_af, NewSolver))

\* the command builds the solver its match gives and calls it.  A grounded
\* query starts by calling grounded_extension(self.af); a complete one by
\* encoding the connected component of the argument into a fresh solver; SE
\* under the preferred semantics by starting the iteration on the components;
\* DS under the preferred semantics by building the machine on the component
\* of the argument, with or without certificate
Launch(p, a) ==
    CASE SolverFor(p) = "Grounded" ->
             /\ gr' = GroundedInit(af)
             /\ pc' = "grounded"
             /\ UNCHANGED <<with_certificate, cc, solver, prVars>>
      [] SolverFor(p) = "Complete" ->
             LET reduced_af == connected_component_of(af, a)
             IN /\ cc' = reduced_af
                /\ solver' = encode_complete_semantics_constraints(reduced_af, NewSolver)
                /\ pc' = "co_solve"
                /\ UNCHANGED <<with_certificate, gr, prVars>>
      [] SolverFor(p) = "Preferred" /\ p.query = "SE" ->
             /\ merged' = <<>>
             /\ visited' = {}
             /\ pc' = "pr_cc"
             /\ UNCHANGED <<with_certificate, gr, cc, solver, mec, reported, calls>>
      [] SolverFor(p) = "Preferred" /\ p.query = "DS" ->
             LET cc_af == connected_component_of(af, a)
                 c == PR_NewComputer(cc_af)
             IN /\ with_certificate' \in BOOLEAN
                /\ cc' = cc_af
                /\ visited' = Reach(af, {a})
                /\ solver' = c.solver
                /\ mec' = c.mec
                /\ calls' = CallNew
                /\ merged' = <<>>
                /\ pc' = "pr_ds"
                /\ UNCHANGED <<gr, reported>>

Dispatch(kinds) ==
    /\ pc = "ready"
    /\ \E p \in Problems :
          /\ SolverFor(p) \in kinds
          /\ problem' = p
          /\ \E a \in ArgInputs(af) :
                /\ arg' = a
                /\ IF read_arg_from_str_ok(a) /\ check_arg_definition(p.query, a)
                   THEN Launch(p, a)
                   ELSE /\ pc' = "failed"
                        /\ UNCHANGED <<with_certificate, gr, cc, solver, prVars>>
    /\ UNCHANGED <<af, rev, libVars, answer>>

GR_Start == Dispatch({"Grounded"})

GR_Iter ==
    /\ pc = "grounded"
    /\ GroundedRunning(gr)
    /\ gr' = GroundedIter(af, gr)
    /\ UNCHANGED <<cmdVars, libVars, pc, cc, solver, prVars, answer>>

\* as GR_Answer, but skeptical acceptance asks for a non-empty extension
GR_AnswerNonEmpty(query, ext, a) ==
    CASE query = "SE" -> SomeExt(ext)
      [] query = "DC" -> Accept(Contains(ext, a))
      [] OTHER -> Accept(ext # <<>>)

GR_Answer(query, ext, a) ==
    IF query = "SE" THEN SomeExt(ext) ELSE Accept(Contains(ext, a))

GR_Return ==
    /\ pc = "grounded"
    /\ ~GroundedRunning(gr)
    /\ answer' = GR_Answer(problem.query, gr.ext, arg)
    /\ pc' = "done"
    /\ UNCHANGED <<cmdVars, libVars, gr, cc, solver, prVars>>

NextGR == GR_Start \/ GR_Iter \/ GR_Return

SpecGR == InitGR /\ [][NextGR]_vars

-----------------------------------------------------------------------------
(* Claims on the grounded computer and the grounded solver *)

\* C1: when grounded_extension has returned, its result is, as a set, the
\* least fixed point of the characteristic function of the framework.
C1_GroundedIsLeastFixedPoint ==
    pc = "done" => Range(gr.ext) = GroundedRef(af)

\* C1 witness: a finished run on a framework with a self-attack, where an
\* attacked argument was reinstated into a result of two arguments or more.
C1_Witness ==
    /\ pc = "done"
    /\ \E a \in af.args : <<a, a>> \in af.att
    /\ \E b \in Range(gr.ext) : AttackersOf(af, b) # {}
    /\ Len(gr.ext) >= 2

\* C8: the grounded solver answers SE with Some(grounded extension), and DC
\* and DS with the membership of the argument in the grounded extension.
C8_GroundedSolverAnswers ==
    (pc = "done" /\ problem.sem = "GR") =>
        CASE problem.query = "SE" ->
                 answer.kind = "ext" /\ Range(answer.ext) = GroundedRef(af)
          [] OTHER ->
                 answer.kind = "status" /\ answer.status = (arg \in GroundedRef(af))

\* C8 witness: DS-GR answered NO on a framework whose grounded extension is
\* not empty.
C8_Witness ==
    /\ pc = "done"
    /\ problem = [query |-> "DS", sem |-> "GR"]
    /\ answer = Accept(FALSE)
    /\ gr.ext # <<>>

ModelOf(f, S) ==
    {arg_id_to_solver_var(a) : a \in S}
    \cup {arg_id_to_solver_disjunction_var(a) :
             a \in {b \in f.args : AttackersOf(f, b) \cap S # {}}}

Inter(SS, all) == {a \in all : \A S \in SS : a \in S}

\* C9: for SE-CO and DS-CO the grounded solver is right: the extension it
\* returns satisfies the complete encoding, is the intersection of all
\* complete extensions, and DS-CO(q) is YES exactly when q is in every
\* complete extension.
C9_GroundedAnswersComplete ==
    (pc = "done" /\ problem.sem = "CO") =>
        CASE problem.query = "SE" ->
                 /\ answer.kind = "ext"
                 /\ ModelOf(af, Range(answer.ext))
                        \in encode_constraints(af, NewSolver).models
                 /\ Range(answer.ext) = Inter(CompleteExts(af), af.args)
          [] OTHER ->
                 /\ answer.kind = "status"
                 /\ answer.status = (\A S \in CompleteExts(af) : arg \in S)

\* C9 witness: DS-CO answered YES on a framework with several complete
\* extensions.
C9_Witness ==
    /\ pc = "done"
    /\ problem = [query |-> "DS", sem |-> "CO"]
    /\ answer = Accept(TRUE)
    /\ Cardinality(CompleteExts(af)) > 1

-----------------------------------------------------------------------------
(* CompleteSemanticsSolver and the encoder on its own *)

InitCO ==
    /\ af \in Frameworks
    /\ Ready

CO_Start == Dispatch({"Grounded", "Complete"})

\* solve_under_assumptions(&[x_arg]).unwrap_model().is_some()
CO_Solve ==
    /\ pc = "co_solve"
    /\ answer' = Accept(solve_under_assumptions(
                            solver, <<CO_AssumptionVar(cc, af, arg)>>) # {})
    /\ pc' = "done"
    /\ UNCHANGED <<cmdVars, libVars, gr, cc, solver, prVars>>

\* encode_constraints(af, solver) on a fresh solver
ENC_Encode ==
    /\ pc = "ready"
    /\ solver' = encode_constraints(af, NewSolver)
    /\ pc' = "encoded"
    /\ UNCHANGED <<cmdVars, libVars, gr, cc, prVars, answer>>

\* assignment_to_extension(solver.solve(), af)
ENC_Solve ==
    /\ pc = "encoded"
    /\ \E m \in solve(solver) :
          answer' = SomeExt(assignment_to_extension(m, solver.n_vars, af))
    /\ pc' = "decoded"
    /\ UNCHANGED <<cmdVars, libVars, gr, cc, solver, prVars>>

NextCO == CO_Start \/ GR_Iter \/ GR_Return \/ CO_Solve \/ ENC_Encode \/ ENC_Solve

SpecCO == InitCO /\ [][NextCO]_vars

Decoded(m) == Range(assignment_to_extension(m, solver.n_vars, af))

\* C2: after encode_constraints, the models of the solver are in 1-1
\* correspondence with the complete extensions: every model decodes to a
\* complete extension, every complete extension is the decoding of a model,
\* no two models decode to the same extension; and the decoded model the
\* round trip returns is a complete (so admissible) extension.
C2_ModelsAreCompleteExtensions ==
    /\ pc = "encoded" =>
          /\ \A m \in solver.models : Decoded(m) \in CompleteExts(af)
          /\ \A S \in CompleteExts(af) : \E m \in solver.models : Decoded(m) = S
          /\ \A m1, m2 \in solver.models : Decoded(m1) = Decoded(m2) => m1 = m2
    /\ pc = "decoded" =>
          /\ answer.kind = "ext"
          /\ IsComplete(af, Range(answer.ext))
          /\ Admissible(af, Range(answer.ext))

\* C2 witness: an encoded framework with three complete extensions or more,
\* one of them with two arguments.
C2_Witness ==
    /\ pc = "encoded"
    /\ Cardinality(solver.models) >= 3
    /\ \E m \in solver.models : Cardinality(Decoded(m)) >= 2

\* C6: DC-CO(q), answered on the connected component of q alone, is YES
\* exactly when some complete extension of the whole framework contains q.
C6_CompleteCredulous ==
    (pc = "done" /\ problem = [query |-> "DC", sem |-> "CO"]) =>
        /\ answer.kind = "status"
        /\ answer.status = (\E S \in CompleteExts(af) : arg \in S)

\* C6 witness: DC-CO answered YES for an attacked argument whose component
\* is not the whole framework and whose id changed in the component.
C6_Witness ==
    /\ pc = "done"
    /\ problem = [query |-> "DC", sem |-> "CO"]
    /\ answer = Accept(TRUE)
    /\ AttackersOf(af, arg) # {}
    /\ n_arguments(cc) < n_arguments(af)
    /\ get_argument(cc, af.label[arg]) # arg

\* C10: DC-PR(q), which the command answers with the complete-semantics
\* solver, is YES exactly when some preferred extension contains q.
C10_PreferredCredulousByComplete ==
    (pc = "done" /\ problem = [query |-> "DC", sem |-> "PR"]) =>
        /\ answer.kind = "status"
        /\ answer.status = (\E S \in PreferredExts(af) : arg \in S)

\* C10 witness: DC-PR answered YES for an argument outside the grounded
\* extension, on a framework with a complete extension that is not preferred.
C10_Witness ==
    /\ pc = "done"
    /\ problem = [query |-> "DC", sem |-> "PR"]
    /\ answer = Accept(TRUE)
    /\ arg \notin GroundedRef(af)
    /\ CompleteExts(af) # PreferredExts(af)

-----------------------------------------------------------------------------
(* PreferredSemanticsSolver *)

MaxArgsDS == 4

MaxSpanDS == 1

\* the frameworks of MaxArgsDS arguments whose attacks join arguments with
\* ids at most MaxSpanDS apart
FrameworksDS ==
    LET n == MaxArgsDS
        pairs == {e \in (0..(n - 1)) \X (0..(n - 1)) :
                     Abs(e[1] - e[2]) <= MaxSpanDS}
    IN {NewAF(n, att) : att \in SUBSET pairs}

InitPR ==
    /\ af \in Frameworks
    /\ Ready

InitDS ==
    /\ af \in FrameworksDS
    /\ Ready

PR_Start == Dispatch({"Preferred"})

\* is_skeptically_accepted_in_cc returns (false, Some(take_current())): with
\* -c the certificate is the first part of merged and the other components
\* follow; without, only the status is kept
\* as PR_DS_ReturnFalse, but the extension is read with current()
PR_DS_ReturnFalseNoTake(r) ==
    IF with_certificate
    THEN /\ merged' = PR_MergeAll(af, cc, r.mec.current)
         /\ mec' = r.mec
         /\ calls' = CallComputeNext(calls, mec.state)
         /\ solver' = r.solver
         /\ pc' = "pr_cc"
         /\ UNCHANGED answer
    ELSE /\ answer' = Accept(FALSE)
         /\ mec' = r.mec
         /\ calls' = CallComputeNext(calls, mec.state)
         /\ solver' = r.solver
         /\ pc' = "done"
         /\ UNCHANGED merged

PR_DS_ReturnFalse(r) ==
    IF with_certificate
    THEN /\ merged' = PR_MergeAll(af, cc, r.mec.current)
         /\ mec' = take_current(r.mec)
         /\ calls' = CallTakeCurrent(CallComputeNext(calls, mec.state))
         /\ solver' = r.solver
         /\ pc' = "pr_cc"
         /\ UNCHANGED answer
    ELSE /\ answer' = Accept(FALSE)
         /\ mec' = take_current(r.mec)
         /\ calls' = CallTakeCurrent(CallComputeNext(calls, mec.state))
         /\ solver' = r.solver
         /\ pc' = "done"
         /\ UNCHANGED merged

\* as attacker_in_current, but any argument of current will do
any_in_current(cc_af, cc_arg, current) ==
    \E att \in cc_af.args : Contains(current, att)

\* cc_af.iter_attacks_to(cc_arg).any(|att| current.contains(&att.attacker()))
attacker_in_current(cc_af, cc_arg, current) ==
    \E att \in AttackersOf(cc_af, cc_arg) : Contains(current, att)

\* is_skeptically_accepted_in_cc: one turn of its loop.  allow_shortcut is
\* true for is_skeptically_accepted, false for the version with certificate
PR_DS_Step ==
    /\ pc = "pr_ds"
    /\ \E r \in compute_next(cc, mec, solver) :
          LET cc_arg == get_argument(cc, af.label[arg])
              current == r.mec.current
              allow_shortcut == ~with_certificate
          IN CASE r.mec.state = "Maximal" /\ ~Contains(current, cc_arg) ->
                      PR_DS_ReturnFalse(r)
               [] r.mec.state = "Intermediate" /\ Contains(current, cc_arg) ->
                      LET d == discard_current_search(cc, r.mec, r.solver)
                      IN /\ mec' = d.mec
                         /\ calls' = CallDiscardCurrentSearch(
                                         CallComputeNext(calls, mec.state))
                         /\ solver' = d.solver
                         /\ UNCHANGED <<pc, merged, answer>>
               [] /\ r.mec.state = "Intermediate"
                  /\ ~Contains(current, cc_arg)
                  /\ allow_shortcut
                  /\ attacker_in_current(cc, cc_arg, current) ->
                      PR_DS_ReturnFalse(r)
               [] r.mec.state = "None" ->
                      /\ answer' = IF with_certificate
                                   THEN AcceptNone(TRUE) ELSE Accept(TRUE)
                      /\ mec' = r.mec
                      /\ calls' = CallComputeNext(calls, mec.state)
                      /\ solver' = r.solver
                      /\ pc' = "done"
                      /\ UNCHANGED merged
               [] OTHER ->
                      /\ mec' = r.mec
                      /\ calls' = CallComputeNext(calls, mec.state)
                      /\ solver' = r.solver
                      /\ UNCHANGED <<pc, merged, answer>>
    /\ UNCHANGED <<cmdVars, libVars, gr, cc, visited, reported>>

\* the next connected component (that of the smallest argument not given out
\* yet), a fresh solver with its encoding, and a machine
PR_NextCC ==
    /\ pc = "pr_cc"
    /\ visited # af.args
    /\ LET a == CHOOSE x \in af.args \ visited :
                    \A y \in af.args \ visited : x <= y
           cc_af == connected_component_of(af, a)
           c == PR_NewComputer(cc_af)
       IN /\ cc' = cc_af
          /\ visited' = visited \cup Reach(af, {a})
          /\ solver' = c.solver
          /\ mec' = c.mec
    /\ calls' = CallNew
    /\ pc' = "pr_max"
    /\ UNCHANGED <<cmdVars, libVars, gr, merged, reported, answer>>

\* compute_maximal: compute_next until the machine is in Maximal
PR_ComputeMaximal ==
    /\ pc = "pr_max"
    /\ mec.state # "Maximal"
    /\ \E r \in compute_next(cc, mec, solver) :
          /\ mec' = r.mec
          /\ solver' = r.solver
    /\ calls' = CallComputeNext(calls, mec.state)
    /\ UNCHANGED <<cmdVars, libVars, pc, gr, cc, visited, merged, reported, answer>>

\* compute_maximal returns take_current(); its arguments are pushed to merged
PR_Merge ==
    /\ pc = "pr_max"
    /\ mec.state = "Maximal"
    /\ merged' = merged \o PR_MergeAll(af, cc, mec.current)
    /\ mec' = take_current(mec)
    /\ calls' = CallTakeCurrent(calls)
    /\ pc' = "pr_cc"
    /\ UNCHANGED <<cmdVars, libVars, gr, cc, solver, visited, reported, answer>>

\* no component is left: Some(merged), or (false, Some(merged))
PR_Return ==
    /\ pc = "pr_cc"
    /\ visited = af.args
    /\ answer' = IF problem.query = "SE"
                 THEN SomeExt(merged) ELSE AcceptSome(FALSE, merged)
    /\ pc' = "done"
    /\ UNCHANGED <<cmdVars, libVars, gr, cc, solver, prVars>>

\* enumerate_extensions(af, solver, encoder, callback) on a fresh solver
PR_EnumStart ==
    /\ pc = "ready"
    /\ LET c == PR_NewComputer(af)
       IN /\ solver' = c.solver
          /\ mec' = c.mec
    /\ cc' = af
    /\ reported' = <<>>
    /\ calls' = CallNew
    /\ pc' = "pr_enum"
    /\ UNCHANGED <<cmdVars, libVars, gr, visited, merged, answer>>

\* enumerate_extensions: one turn of its loop, with a callback that records
\* the extension and returns true
PR_EnumStep ==
    /\ pc = "pr_enum"
    /\ \E r \in compute_next(cc, mec, solver) :
          /\ mec' = r.mec
          /\ solver' = r.solver
          /\ calls' = CallComputeNext(calls, mec.state)
          /\ CASE r.mec.state = "Maximal" ->
                      /\ reported' = Append(reported, r.mec.current)
                      /\ UNCHANGED pc
               [] r.mec.state = "None" ->
                      /\ pc' = "enumerated"
                      /\ UNCHANGED reported
               [] OTHER -> UNCHANGED <<pc, reported>>
    /\ UNCHANGED <<cmdVars, libVars, gr, cc, visited, merged, answer>>

NextPR ==
    \/ PR_Start
    \/ PR_DS_Step
    \/ PR_NextCC
    \/ PR_ComputeMaximal
    \/ PR_Merge
    \/ PR_Return
    \/ PR_EnumStart
    \/ PR_EnumStep

SpecPR == InitPR /\ [][NextPR]_vars

SpecDS == InitDS /\ [][NextPR]_vars

SkepticallyAccepted(f, a) == \A S \in PreferredExts(f) : a \in S

\* C3: is_skeptically_accepted(q), which solves only the connected component
\* of q, returns true exactly when q belongs to every preferred extension of
\* the whole framework.
C3_SkepticalIffInEveryPreferred ==
    (pc = "done" /\ problem = [query |-> "DS", sem |-> "PR"] /\ ~with_certificate) =>
        /\ answer.kind = "status"
        /\ answer.status = SkepticallyAccepted(af, arg)

\* C4: is_skeptically_accepted_with_certificate(q) returns (true, None) when
\* q is skeptically accepted, and otherwise (false, Some(E)) with E a
\* preferred extension of the whole framework that does not contain q and
\* holds no argument twice.
C4_CertificateIsPreferred ==
    (pc = "done" /\ problem = [query |-> "DS", sem |-> "PR"] /\ with_certificate) =>
        /\ answer.kind = "cert"
        /\ IF SkepticallyAccepted(af, arg)
           THEN answer = AcceptNone(TRUE)
           ELSE /\ answer.status = FALSE
                /\ answer.some
                /\ NoDup(answer.ext)
                /\ Range(answer.ext) \in PreferredExts(af)
                /\ arg \notin Range(answer.ext)

\* C5: compute_one_extension returns Some(E), and E, the concatenation of the
\* first Maximal extension of each connected component, is a preferred
\* extension of the whole framework: admissible, with no admissible strict
\* superset.
C5_OneExtensionIsPreferred ==
    (pc = "done" /\ problem = [query |-> "SE", sem |-> "PR"]) =>
        /\ answer.kind = "ext"
        /\ NoDup(answer.ext)
        /\ Admissible(af, Range(answer.ext))
        /\ \A T \in SUBSET af.args :
              (Range(answer.ext) \subseteq T /\ T # Range(answer.ext))
                  => ~Admissible(af, T)

\* C5 witness: SE-PR answered, on a framework of several components, with an
\* extension that is not the grounded one.
C5_Witness ==
    /\ pc = "done"
    /\ problem = [query |-> "SE", sem |-> "PR"]
    /\ answer.kind = "ext"
    /\ Reach(af, {0}) # af.args
    /\ Range(answer.ext) # GroundedRef(af)
    /\ Len(answer.ext) >= 2

\* C7: with a callback that always returns true, enumerate_extensions gives
\* the callback each preferred extension exactly once and nothing else: what
\* was reported so far is preferred and without repetition, and at the end
\* every preferred extension was reported.
C7_EnumerationIsExact ==
    /\ pc \in {"pr_enum", "enumerated"} =>
          /\ \A i \in 1..Len(reported) :
                /\ NoDup(reported[i])
                /\ Range(reported[i]) \in PreferredExts(af)
          /\ \A i, j \in 1..Len(reported) :
                Range(reported[i]) = Range(reported[j]) => i = j
    /\ pc = "enumerated" =>
          \A S \in PreferredExts(af) :
              \E i \in 1..Len(reported) : Range(reported[i]) = S

\* C7 witness: an enumeration that ended after it reported two extensions.
C7_Witness ==
    /\ pc = "enumerated"
    /\ Len(reported) >= 2

-----------------------------------------------------------------------------
(* The id/variable map of the encoder and of the complete-semantics solver,
   called on its own as the unit test does *)

InitVM ==
    /\ af = NewAF(0, {})
    /\ ReadyCmd
    /\ bridge = NoBridge
    /\ dyn = NoDyn
    /\ \E enc \in {"encoder", "complete_solver"} :
          \/ \E i \in 0..MaxId :
                vm = [enc |-> enc, kind |-> "id", input |-> i, mid |-> 0,
                      out |-> 0, step |-> 0]
          \/ \E v \in 1..UsizeMax :
                vm = [enc |-> enc, kind |-> "var", input |-> v, mid |-> 0,
                      out |-> 0, step |-> 0]

VM_to(enc, id) ==
    IF enc = "encoder" THEN arg_id_to_solver_var(id) ELSE cs_arg_id_to_solver_var(id)

VM_from(enc, v) ==
    IF enc = "encoder" THEN arg_id_from_solver_var(v) ELSE cs_arg_id_from_solver_var(v)

\* arg_id_to_solver_var: on the id given, or on the id the inverse gave
VM_ToVar ==
    /\ \/ vm.kind = "id" /\ vm.step = 0
       \/ vm.kind = "var" /\ vm.step = 1 /\ vm.mid # None
    /\ vm' = IF vm.kind = "id"
             THEN [vm EXCEPT !.mid = VM_to(vm.enc, vm.input), !.step = 1]
             ELSE [vm EXCEPT !.out = VM_to(vm.enc, vm.mid), !.step = 2]
    /\ UNCHANGED <<cmdVars, pc, gr, cc, solver, prVars, bridge, dyn, answer>>

\* arg_id_from_solver_var: on the variable given, or on the variable the map gave
VM_FromVar ==
    /\ \/ vm.kind = "var" /\ vm.step = 0
       \/ vm.kind = "id" /\ vm.step = 1
    /\ vm' = IF vm.kind = "var"
             THEN [vm EXCEPT !.mid = VM_from(vm.enc, vm.input), !.step = 1]
             ELSE [vm EXCEPT !.out = VM_from(vm.enc, vm.mid), !.step = 2]
    /\ UNCHANGED <<cmdVars, pc, gr, cc, solver, prVars, bridge, dyn, answer>>

NextVM == VM_ToVar \/ VM_FromVar

SpecVM == InitVM /\ [][NextVM]_vars

\* C11: the map round-trips: an id mapped to its variable and back is Some(id);
\* an even variable mapped to its id and back is the same variable; the
\* inverse of an odd variable is None.
C11_VarMapRoundTrip ==
    /\ (vm.kind = "id" /\ vm.step = 2) => (vm.out # None /\ vm.out = vm.input)
    /\ (vm.kind = "var" /\ vm.step >= 1) =>
          ((vm.input % 2 = 1) <=> (vm.mid = None))
    /\ (vm.kind = "var" /\ vm.step = 2) => vm.out = vm.input

\* C11 witness: the largest id went to its variable and came back.
C11_Witness ==
    /\ vm.kind = "id"
    /\ vm.step = 2
    /\ vm.input = MaxId
    /\ vm.mid = UsizeMax - 1

-----------------------------------------------------------------------------
(* The preferred-semantics solver on a framework some arguments of which were
   removed before the solver was built *)

\* remove_argument: the slot of the argument is tombstoned, so the ids of
\* the other arguments stay, and its attacks go with it
remove_argument(f, a) ==
    [args |-> f.args \ {a},
     att |-> {e \in f.att : e[1] # a /\ e[2] # a},
     label |-> f.label]

\* the ids that were given and are no longer live
Tombstones(f) == DOMAIN f.label \ f.args

\* the framework a reader builds from the live arguments and attacks alone
FromScratch(f) == SubAF(f, f.args)

Labels(f, S) == {f.label[i] : i \in S}

InitRM ==
    /\ af \in Frameworks
    /\ Ready

AF_RemoveArgument ==
    /\ pc = "ready"
    /\ \E a \in af.args : af' = remove_argument(af, a)
    /\ UNCHANGED <<rev, problem, arg, with_certificate, libVars, pc, gr, cc,
                   solver, prVars, answer>>

NextRM ==
    \/ AF_RemoveArgument
    \/ PR_Start
    \/ PR_DS_Step
    \/ PR_NextCC
    \/ PR_ComputeMaximal
    \/ PR_Merge
    \/ PR_Return
    \/ PR_EnumStart
    \/ PR_EnumStep

SpecRM == InitRM /\ [][NextRM]_vars

\* C12: on a framework with removed arguments, compute_one_extension and
\* is_skeptically_accepted (with or without certificate) of the preferred
\* solver answer as they may on the framework built from scratch from the
\* remaining arguments and attacks: the extension is, label for label, a
\* preferred extension of that framework and holds no removed argument, and
\* the status is skeptical acceptance in that framework.
C12_RemovalIsAsFromScratch ==
    (pc = "done" /\ Tombstones(af) # {} /\ problem.sem = "PR") =>
        LET scratch == FromScratch(af)
            prefs == {Labels(scratch, S) : S \in PreferredExts(scratch)}
            q == af.label[arg]
        IN CASE problem.query = "SE" ->
                    /\ answer.kind = "ext"
                    /\ NoDup(answer.ext)
                    /\ Range(answer.ext) \subseteq af.args
                    /\ Labels(af, Range(answer.ext)) \in prefs
             [] problem.query = "DS" ->
                    /\ answer.status = (\A L \in prefs : q \in L)
                    /\ (answer.kind = "cert" /\ answer.some) =>
                          /\ Range(answer.ext) \subseteq af.args
                          /\ Labels(af, Range(answer.ext)) \in prefs
                          /\ q \notin Labels(af, Range(answer.ext))
             [] OTHER -> TRUE

\* C12 witness: after the removal of the argument of id 0, SE-PR answered
\* with an extension of two other arguments.
C12_Witness ==
    /\ pc = "done"
    /\ 0 \in Tombstones(af)
    /\ problem = [query |-> "SE", sem |-> "PR"]
    /\ answer.kind = "ext"
    /\ Len(answer.ext) = 2

-----------------------------------------------------------------------------
(* DummyDynamicConstraintsEncoder: a framework that is changed between
   acceptance queries, each of which is answered by a solver built for it *)

MaxDynLabels == 2

MaxDynIds == 3

DynLabels == 0..(MaxDynLabels - 1)

HasLabel(f, l) == \E i \in f.args : f.label[i] = l

\* new_argument: the next id, never given before, for a label that is not live
new_argument(f, l) ==
    LET w == Cardinality(DOMAIN f.label)
    IN [args |-> f.args \cup {w},
        att |-> f.att,
        label |-> [i \in 0..w |-> IF i < w THEN f.label[i] ELSE l]]

new_attack(f, from, to) ==
    [f EXCEPT !.att = @ \cup {<<get_argument(f, from), get_argument(f, to)>>}]

remove_attack(f, from, to) ==
    [f EXCEPT !.att = @ \ {<<get_argument(f, from), get_argument(f, to)>>}]

\* new(...): the facade holds an empty framework; the orders of iteration
\* are those of the framework's implementation
InitDyn ==
    /\ af = NewAF(0, {})
    /\ ReadyCmd
    /\ vm = NoVM
    /\ bridge = NoBridge
    /\ dyn = [NoDyn EXCEPT !.op = "new"]

DYN_NewArgument ==
    /\ pc = "ready"
    /\ dyn.op # "none"
    /\ Cardinality(DOMAIN af.label) < MaxDynIds
    /\ \E l \in DynLabels :
          /\ ~HasLabel(af, l)
          /\ af' = new_argument(af, l)
    /\ dyn' = [dyn EXCEPT !.op = "new_argument", !.ok = TRUE]
    /\ UNCHANGED <<rev, problem, arg, with_certificate, vm, bridge, pc, gr, cc,
                   solver, prVars, answer>>

\* remove_argument: an error, and no change, for a label that is not live
DYN_RemoveArgument ==
    /\ pc = "ready"
    /\ dyn.op # "none"
    /\ \E l \in DynLabels :
          IF HasLabel(af, l)
          THEN /\ af' = remove_argument(af, get_argument(af, l))
               /\ dyn' = [dyn EXCEPT !.op = "remove_argument", !.ok = TRUE]
          ELSE /\ af' = af
               /\ dyn' = [dyn EXCEPT !.op = "remove_argument", !.ok = FALSE]
    /\ UNCHANGED <<rev, problem, arg, with_certificate, vm, bridge, pc, gr, cc,
                   solver, prVars, answer>>

DYN_NewAttack ==
    /\ pc = "ready"
    /\ dyn.op # "none"
    /\ \E from, to \in DynLabels :
          IF HasLabel(af, from) /\ HasLabel(af, to)
          THEN /\ af' = new_attack(af, from, to)
               /\ dyn' = [dyn EXCEPT !.op = "new_attack", !.ok = TRUE]
          ELSE /\ af' = af
               /\ dyn' = [dyn EXCEPT !.op = "new_attack", !.ok = FALSE]
    /\ UNCHANGED <<rev, problem, arg, with_certificate, vm, bridge, pc, gr, cc,
                   solver, prVars, answer>>

DYN_RemoveAttack ==
    /\ pc = "ready"
    /\ dyn.op # "none"
    /\ \E from, to \in DynLabels :
          IF /\ HasLabel(af, from)
             /\ HasLabel(af, to)
             /\ <<get_argument(af, from), get_argument(af, to)>> \in af.att
          THEN /\ af' = remove_attack(af, from, to)
               /\ dyn' = [dyn EXCEPT !.op = "remove_attack", !.ok = TRUE]
          ELSE /\ af' = af
               /\ dyn' = [dyn EXCEPT !.op = "remove_attack", !.ok = FALSE]
    /\ UNCHANGED <<rev, problem, arg, with_certificate, vm, bridge, pc, gr, cc,
                   solver, prVars, answer>>

\* as DYN_FactoryFor, but the credulous factory answers every query
DYN_FactoryForCredulousOnly(query) == "credulous"

\* the factory each query calls
DYN_FactoryFor(query) ==
    IF query = "are_credulously_accepted" THEN "credulous" ELSE "skeptical"

\* the factories injected: the complete-semantics solver for credulous
\* acceptance, the preferred-semantics solver for skeptical acceptance
DYN_Problem(factory) ==
    IF factory = "credulous"
    THEN [query |-> "DC", sem |-> "CO"]
    ELSE [query |-> "DS", sem |-> "PR"]

\* are_credulously_accepted / are_skeptically_accepted (with or without
\* certificate) on one label: the factory builds a computer on the framework
\* held, and the computer is asked
DYN_Query ==
    /\ pc = "ready"
    /\ dyn.op # "none"
    /\ \E q \in {"are_credulously_accepted", "are_skeptically_accepted"},
          l \in DynLabels :
          /\ HasLabel(af, l)
          /\ LET p == DYN_Problem(DYN_FactoryFor(q))
                 a == get_argument(af, l)
             IN /\ problem' = p
                /\ arg' = a
                /\ Launch(p, a)
          /\ dyn' = [dyn EXCEPT !.op = q, !.ok = TRUE, !.label = l]
    /\ UNCHANGED <<af, rev, vm, bridge, answer>>

\* the query returns what the computer answered, and the computer is dropped
DYN_Return ==
    /\ pc = "done"
    /\ dyn.op \in {"are_credulously_accepted", "are_skeptically_accepted"}
    /\ dyn' = [dyn EXCEPT !.op = "returned",
                          !.last = [op |-> dyn.op, label |-> dyn.label,
                                    status |-> answer.status]]
    /\ problem' = NoProblem
    /\ arg' = -1
    /\ with_certificate' = FALSE
    /\ pc' = "ready"
    /\ gr' = NoGr
    /\ cc' = NoCC
    /\ solver' = NewSolver
    /\ mec' = NoMEC
    /\ calls' = NoCalls
    /\ visited' = {}
    /\ merged' = <<>>
    /\ answer' = NoAnswer
    /\ UNCHANGED <<af, rev, reported, vm, bridge>>

NextDyn ==
    \/ DYN_NewArgument
    \/ DYN_RemoveArgument
    \/ DYN_NewAttack
    \/ DYN_RemoveAttack
    \/ DYN_Query
    \/ CO_Solve
    \/ PR_DS_Step
    \/ PR_NextCC
    \/ PR_ComputeMaximal
    \/ PR_Merge
    \/ PR_Return
    \/ DYN_Return

SpecDyn == InitDyn /\ [][NextDyn]_vars

\* the framework a query is about, by labels, and the label asked
DynCredulous(f, l) ==
    \E S \in CompleteExts(FromScratch(f)) : l \in Labels(FromScratch(f), S)

DynSkeptical(f, l) ==
    \A S \in PreferredExts(FromScratch(f)) : l \in Labels(FromScratch(f), S)

\* C13: an acceptance query of the facade is answered by a solver built for
\* it from the framework held: whatever operations and queries came before,
\* the answer is the acceptance of the label in the framework as it is now,
\* the state of the solver when it starts is the encoding of the component by
\* a new solver, and between two queries no solver state is kept.
C13_QueriesAreFresh ==
    /\ (pc = "done" /\ dyn.op = "are_credulously_accepted") =>
          answer.status = DynCredulous(af, dyn.label)
    /\ (pc = "done" /\ dyn.op = "are_skeptically_accepted") =>
          /\ answer.status = DynSkeptical(af, dyn.label)
          /\ (answer.kind = "cert" /\ answer.some) =>
                Range(answer.ext) \subseteq af.args
    /\ (pc = "co_solve" /\ dyn.op = "are_credulously_accepted") =>
          solver = encode_complete_semantics_constraints(
                       connected_component_of(af, get_argument(af, dyn.label)),
                       NewSolver)
    /\ (pc = "ready" /\ dyn.op # "none") =>
          /\ solver = NewSolver
          /\ mec = NoMEC
          /\ cc = NoCC

\* C13 witness: the same question as the one before got the other answer,
\* after operations that left a removed argument.
C13_Witness ==
    /\ pc = "done"
    /\ dyn.last.op = dyn.op
    /\ dyn.last.label = dyn.label
    /\ dyn.last.status # answer.status
    /\ Tombstones(af) # {}

-----------------------------------------------------------------------------
(* ExternalSatSolver: the clauses are buffered, and each solve call runs a
   child process that is given the instance on its standard input by a writer
   thread and whose standard output is parsed.  A pipe holds PipeCap lines *)

PipeCap == 2

MaxOutputLines == 3

MaxClauses == 2

MaxCalls == 2

ClauseChoices == {<<1, 2>>, <<-1>>}

AssumptionChoices == {<<-1>>, <<-1, -2>>}

OutLines == {"c", "s SATISFIABLE", "s UNSATISFIABLE"}

StatusLines == {"s SATISFIABLE", "s UNSATISFIABLE"}

SeqsUpTo(S, n) == UNION {[1..k -> S] : k \in 0..n}

\* what a solver may print: comment lines and at most one status line
ChildOutputs ==
    {o \in SeqsUpTo(OutLines, MaxOutputLines) :
        Cardinality({i \in 1..Len(o) : o[i] \in StatusLines}) <= 1}

\* the instance as DimacsInstanceRead gives it: the header, then a unit
\* clause for each assumption, then the clauses in the order they were added
dimacs(n, clauses, assumptions) ==
    <<<<"p cnf", n, Len(assumptions) + Len(clauses)>>>>
        \o [i \in 1..Len(assumptions) |-> <<"cl", <<assumptions[i]>>>>]
        \o [i \in 1..Len(clauses) |-> <<"cl", clauses[i]>>]

\* the result read from the output: the status line decides, and without
\* one the result is Unknown
parse_result(out) ==
    IF \E i \in 1..Len(out) : out[i] = "s SATISFIABLE" THEN "sat"
    ELSE IF \E i \in 1..Len(out) : out[i] = "s UNSATISFIABLE" THEN "unsat"
    ELSE "unknown"

\* as exec_solver_output, but with nothing to read after a failed exit
exec_solver_output_checked(exit_status, stdout) ==
    IF exit_status = 0 THEN stdout ELSE <<>>

\* what exec_solver gives its caller to read: the standard output of the
\* child, whatever the exit status wait() returned
exec_solver_output(exit_status, stdout) == stdout

\* as ES_assumptions_stored, but the assumptions are added as clauses
ES_assumptions_stored_as_clauses(clauses, assumptions) ==
    clauses \o [i \in 1..Len(assumptions) |-> <<assumptions[i]>>]

\* what solve_under_assumptions leaves in the buffer: the call is handed to
\* the buffered solver with the assumptions apart, no add_clause is made
ES_assumptions_stored(clauses, assumptions) == clauses

\* ExternalSatSolver::new
InitExt ==
    /\ af = NewAF(0, {})
    /\ ReadyCmd
    /\ vm = NoVM
    /\ dyn = NoDyn
    /\ bridge = [NoBridge EXCEPT !.main = "idle"]

extFrame == <<cmdVars, vm, dyn, pc, gr, cc, solver, prVars, answer>>

ES_add_clause ==
    /\ bridge.main = "idle"
    /\ Len(bridge.clauses) < MaxClauses
    /\ \E cl \in ClauseChoices :
          bridge' = [bridge EXCEPT
                        !.call = "add_clause",
                        !.clauses = Append(@, cl),
                        !.n_vars = Max(@, MaxVar(cl))]
    /\ UNCHANGED extFrame

\* the call builds the instance and exec_solver spawns the child and the
\* writer thread, then waits for the child
ES_BeginCall(call, assumptions) ==
    /\ bridge.main = "idle"
    /\ bridge.n_spawned < MaxCalls
    /\ \E out \in ChildOutputs, st \in {0, 1}, rd \in BOOLEAN :
          LET stored == ES_assumptions_stored(bridge.clauses, assumptions)
          IN bridge' = [bridge EXCEPT
                !.main = "wait",
                !.call = call,
                !.assumptions = assumptions,
                !.before = <<bridge.clauses, bridge.n_vars, bridge.n_spawned>>,
                !.clauses = stored,
                !.n_spawned = @ + 1,
                !.writer = "writing",
                !.to_write = dimacs(bridge.n_vars, stored, assumptions),
                !.stdin_pipe = <<>>,
                !.stdin_open = TRUE,
                !.child = IF rd THEN "reading" ELSE "writing",
                !.reads_input = rd,
                !.child_in = <<>>,
                !.to_print = out,
                !.child_out = <<>>,
                !.exit_status = st,
                !.stdout_pipe = <<>>,
                !.stdout_read = <<>>,
                !.result = "none"]
    /\ UNCHANGED extFrame

ES_solve == ES_BeginCall("solve", <<>>)

ES_solve_under_assumptions ==
    \E a \in AssumptionChoices :
        /\ \A i \in 1..Len(a) : Abs(a[i]) <= bridge.n_vars
        /\ ES_BeginCall("solve_under_assumptions", a)

\* the writer thread: write_all, which goes on as the pipe has room
exec_writer_write ==
    /\ bridge.writer = "writing"
    /\ bridge.to_write # <<>>
    /\ bridge.child # "exited"
    /\ Len(bridge.stdin_pipe) < PipeCap
    /\ bridge' = [bridge EXCEPT !.stdin_pipe = Append(@, Head(bridge.to_write)),
                                !.to_write = Tail(@)]
    /\ UNCHANGED extFrame

\* the child is gone: write_all fails and the thread panics
exec_writer_fail ==
    /\ bridge.writer = "writing"
    /\ bridge.to_write # <<>>
    /\ bridge.child = "exited"
    /\ bridge' = [bridge EXCEPT !.writer = "panicked", !.stdin_open = FALSE]
    /\ UNCHANGED extFrame

\* flush, and the end of the thread drops stdin
exec_writer_close ==
    /\ bridge.writer = "writing"
    /\ bridge.to_write = <<>>
    /\ bridge' = [bridge EXCEPT !.writer = "done", !.stdin_open = FALSE]
    /\ UNCHANGED extFrame

child_read ==
    /\ bridge.child = "reading"
    /\ bridge.stdin_pipe # <<>>
    /\ bridge' = [bridge EXCEPT !.child_in = Append(@, Head(bridge.stdin_pipe)),
                                !.stdin_pipe = Tail(@)]
    /\ UNCHANGED extFrame

child_eof ==
    /\ bridge.child = "reading"
    /\ bridge.stdin_pipe = <<>>
    /\ ~bridge.stdin_open
    /\ bridge' = [bridge EXCEPT !.child = "writing"]
    /\ UNCHANGED extFrame

child_write ==
    /\ bridge.child = "writing"
    /\ bridge.to_print # <<>>
    /\ Len(bridge.stdout_pipe) < PipeCap
    /\ bridge' = [bridge EXCEPT !.stdout_pipe = Append(@, Head(bridge.to_print)),
                                !.child_out = Append(@, Head(bridge.to_print)),
                                !.to_print = Tail(@)]
    /\ UNCHANGED extFrame

child_exit ==
    /\ bridge.child = "writing"
    /\ bridge.to_print = <<>>
    /\ bridge' = [bridge EXCEPT !.child = "exited"]
    /\ UNCHANGED extFrame

\* child.wait() returns once the child has exited, and exec_solver returns
\* the standard output for its caller to read
exec_wait_returns ==
    /\ bridge.main = "wait"
    /\ bridge.child = "exited"
    /\ bridge' = [bridge EXCEPT !.main = "read"]
    /\ UNCHANGED extFrame

\* the buffered solver reads the output and parses it; the call returns
buffered_read ==
    /\ bridge.main = "read"
    /\ bridge' = [bridge EXCEPT
          !.main = "idle",
          !.stdout_read = exec_solver_output(bridge.exit_status, bridge.stdout_pipe),
          !.stdout_pipe = <<>>,
          !.result = parse_result(
                exec_solver_output(bridge.exit_status, bridge.stdout_pipe)),
          !.prev_assumptions = bridge.assumptions]
    /\ UNCHANGED extFrame

NextExt ==
    \/ ES_add_clause
    \/ ES_solve
    \/ ES_solve_under_assumptions
    \/ exec_writer_write
    \/ exec_writer_fail
    \/ exec_writer_close
    \/ child_read
    \/ child_eof
    \/ child_write
    \/ child_exit
    \/ exec_wait_returns
    \/ buffered_read

SpecExt == InitExt /\ [][NextExt]_vars

\* C14: no pipe deadlock is reachable: while exec_solver has not returned,
\* with a child that reads all its input, some thread or the child can
\* take a step, whatever the sizes of the input and the output.
C14_NoPipeDeadlock ==
    (bridge.main = "wait" /\ bridge.reads_input) => ENABLED NextExt

\* C15: the assumptions of solve_under_assumptions are temporary: a call
\* spawns exactly one child and leaves the stored clauses and n_vars as they
\* were, n_vars is always the largest variable of the added clauses, and
\* the child of a solve() reads the header and the added clauses only,
\* whatever assumptions the call before had.
C15_AssumptionsAreTemporary ==
    /\ (bridge.main = "idle"
            /\ bridge.call \in {"solve", "solve_under_assumptions"}) =>
          /\ bridge.clauses = bridge.before[1]
          /\ bridge.n_vars = bridge.before[2]
          /\ bridge.n_spawned = bridge.before[3] + 1
    /\ bridge.main # "none" =>
          /\ \A i \in 1..Len(bridge.clauses) :
                MaxVar(bridge.clauses[i]) <= bridge.n_vars
          /\ bridge.n_vars > 0 =>
                \E i \in 1..Len(bridge.clauses) :
                    MaxVar(bridge.clauses[i]) = bridge.n_vars
          /\ \A i \in 1..Len(bridge.clauses) :
                bridge.clauses[i] \in ClauseChoices
    /\ (bridge.call = "solve" /\ bridge.main \in {"wait", "read"}
            /\ bridge.reads_input /\ bridge.child \in {"writing", "exited"}) =>
          /\ Len(bridge.child_in) = 1 + Len(bridge.clauses)
          /\ bridge.child_in[1] = <<"p cnf", bridge.n_vars, Len(bridge.clauses)>>
          /\ \A i \in 1..Len(bridge.clauses) :
                bridge.child_in[i + 1] = <<"cl", bridge.clauses[i]>>

\* C15 witness: a solve() about to return whose child read the header and
\* one clause, after a solve_under_assumptions with two assumptions.
C15_Witness ==
    /\ bridge.main = "read"
    /\ bridge.call = "solve"
    /\ bridge.prev_assumptions = <<-1, -2>>
    /\ bridge.n_spawned = 2
    /\ bridge.reads_input
    /\ bridge.child_in = <<<<"p cnf", 2, 1>>, <<"cl", <<1, 2>>>>>>

\* C16: when the child exited with an error, the result is Unknown only if
\* the child printed neither status line, and if it printed one the result
\* is the one of that line.
C16_ExitErrorKeepsStatus ==
    (bridge.main = "idle" /\ bridge.exit_status # 0
        /\ bridge.call \in {"solve", "solve_under_assumptions"}) =>
        LET printed == Range(bridge.child_out)
        IN /\ (bridge.result = "unknown") <=> (printed \cap StatusLines = {})
           /\ "s SATISFIABLE" \in printed => bridge.result = "sat"
           /\ "s UNSATISFIABLE" \in printed => bridge.result = "unsat"

\* C16 witness: a child that printed s UNSATISFIABLE and exited with an
\* error, and the call returned Unsatisfiable.
C16_Witness ==
    /\ bridge.main = "idle"
    /\ bridge.call = "solve_under_assumptions"
    /\ bridge.exit_status # 0
    /\ bridge.child_out = <<"c", "s UNSATISFIABLE">>
    /\ bridge.result = "unsat"

-----------------------------------------------------------------------------
(* The argument of the command line with an SE query *)

\* C17: an argument given with an SE query is ignored: whatever -a is, the
\* command succeeds as it does without -a, and writes the extension of the
\* semantics.
C17_ArgIgnoredForSE ==
    (problem.query = "SE" /\ arg # -1) =>
        /\ pc # "failed"
        /\ pc = "done" =>
              /\ answer.kind = "ext"
              /\ Range(answer.ext) = GroundedRef(af)

-----------------------------------------------------------------------------
(* The machine and its drivers: calls after None, take_current, and the
   clause of the increase_current hook *)

MaxExtraCalls == 2

\* a client that calls compute_next again on a machine that is in None,
\* after the driver loop has left
MEC_ComputeNextAfterNone ==
    /\ pc \in {"enumerated", "done"}
    /\ mec.state = "None"
    /\ calls.after_none < MaxExtraCalls
    /\ \E r \in compute_next(cc, mec, solver) :
          /\ mec' = r.mec
          /\ solver' = r.solver
    /\ calls' = CallComputeNext(calls, mec.state)
    /\ UNCHANGED <<cmdVars, libVars, pc, gr, cc, visited, merged, reported, answer>>

NextMEC ==
    \/ NextPR
    \/ MEC_ComputeNextAfterNone

SpecMEC == InitPR /\ [][NextMEC]_vars

\* C18: None is absorbing: a step taken by a machine that is in None, a
\* further compute_next call included, leaves it in None with the solver
\* as it was, so no Intermediate or Maximal state comes after None.
C18_NoneIsAbsorbing ==
    [][mec.state = "None" => (mec'.state = "None" /\ solver' = solver)]_vars

\* C18 witness: compute_next was called twice on a machine in None, after an
\* enumeration that reported two extensions.
C18_Witness ==
    /\ pc = "enumerated"
    /\ mec.state = "None"
    /\ calls.after_none = 2
    /\ calls.from = "None"
    /\ Len(reported) = 2

\* C19: in the driver loops, each time the machine is in Maximal,
\* take_current is called exactly once before the next compute_next call.
C19_TakeCurrentOncePerMaximal ==
    calls.from = "Maximal" => calls.taken_before = 1

\* C19 (amended): a driver calls take_current only as its last use of the
\* machine: a compute_next call made in Maximal, in enumerate_extensions and
\* in is_skeptically_accepted_in_cc, comes after no take_current;
\* enumerate_extensions never calls take_current; and
\* is_skeptically_accepted_in_cc, when it returns false, and compute_maximal
\* call it exactly once and make no call after it.
C19_TakeCurrentOnlyOnReturn ==
    /\ calls.from = "Maximal" => calls.taken_before = 0
    /\ calls.taken <= 1
    /\ calls.taken = 1 <=> calls.last = "take_current"
    /\ calls.last = "take_current" => pc \in {"pr_cc", "done"}
    /\ pc \in {"pr_enum", "enumerated"} => calls.last # "take_current"
    /\ (pc = "done" /\ problem = [query |-> "DS", sem |-> "PR"]
            /\ ~with_certificate /\ answer = Accept(FALSE)) =>
          calls.last = "take_current"
    /\ (pc = "pr_cc" /\ calls.last # "none") => calls.last = "take_current"

\* C19 witness: the enumeration called compute_next on a machine in Maximal,
\* whose extension it had reported, and is in its loop.
C19_Witness ==
    /\ pc = "pr_enum"
    /\ calls.from = "Maximal"
    /\ calls.taken_before = 0
    /\ Len(reported) >= 1
    /\ mec.state = "Intermediate"

\* the literal of an argument and the selector in a clause, as sets
LitsOf(S) == {2 * (a + 1) : a \in S}

\* C20: when the machine is in Intermediate with extension S and round
\* selector s, the solver holds a clause (not-s or x_a) for each a in S and
\* the clause (s or the disjunction of x_a over the a not in S).
C20_IncreaseCurrentAddsBothParts ==
    (mec.state = "Intermediate" /\ pc \in {"pr_ds", "pr_max", "pr_enum"}) =>
        LET S == Range(mec.current)
            s == mec.selector
            held == {Range(solver.clauses[i]) : i \in 1..Len(solver.clauses)}
        IN /\ \A a \in S : {-s} \cup LitsOf({a}) \in held
           /\ {s} \cup LitsOf(cc.args \ S) \in held

\* C20 (amended): a compute_next call that leaves the machine in
\* Intermediate with extension S and round selector s, from Init or
\* Intermediate, and is followed by no other call in the step, has added to the solver exactly one clause, (s or the
\* disjunction of x_a over the a not in S); no clause holds not-s; and the
\* hook has given x_a for each a in S and not-s as assumptions of the next
\* solve.
C20_IncreaseCurrentAddsOneClause ==
    [][(/\ mec.state \in {"Init", "Intermediate"}
        /\ mec'.state = "Intermediate"
        /\ mec'.selector = mec.selector
        /\ calls'.last = "compute_next"
        /\ pc \in {"pr_ds", "pr_max", "pr_enum"}) =>
            LET S == Range(mec'.current)
                s == mec'.selector
                n == Len(solver.clauses)
            IN /\ Len(solver'.clauses) = n + 1
               /\ \A i \in 1..n : solver'.clauses[i] = solver.clauses[i]
               /\ Range(solver'.clauses[n + 1]) = {s} \cup LitsOf(cc.args \ S)
               /\ \A i \in 1..(n + 1) : -s \notin Range(solver'.clauses[i])
               /\ LitsOf(S) \cup {-s} \subseteq Range(mec'.assumptions)
               /\ \A l \in Range(mec'.assumptions) :
                     l \in LitsOf(S) \/ l < 0]_vars

\* C20 witness: the machine is in Intermediate with an extension of two
\* arguments, another argument is outside, and the last clause of the solver
\* is the one of the hook.
C20_Witness ==
    /\ mec.state = "Intermediate"
    /\ pc = "pr_enum"
    /\ Len(mec.current) = 2
    /\ Cardinality(cc.args) = 3
    /\ Range(solver.clauses[Len(solver.clauses)])
           = {mec.selector} \cup LitsOf(cc.args \ Range(mec.current))

-----------------------------------------------------------------------------
(* The hooks of the preferred-semantics solver in the rounds of the machine *)

\* C21: increase_current enlarges the extension strictly: a compute_next
\* call made in Intermediate(M) that ends in Intermediate(M') in the same
\* round has M a strict subset of M'.
C21_IncreaseIsStrict ==
    [][(/\ mec.state = "Intermediate"
        /\ mec'.state = "Intermediate"
        /\ mec'.selector = mec.selector
        /\ calls'.last = "compute_next"
        /\ pc \in {"pr_ds", "pr_max", "pr_enum"}) =>
            /\ Range(mec.current) \subseteq Range(mec'.current)
            /\ Range(mec'.current) # Range(mec.current)
            /\ NoDup(mec'.current)]_vars

\* C21 witness: a compute_next call made in Intermediate ended in
\* Intermediate with an extension of two arguments.
C21_Witness ==
    /\ mec.state = "Intermediate"
    /\ calls.last = "compute_next"
    /\ calls.from = "Intermediate"
    /\ Len(mec.current) = 2

\* the extensions on which discard_maximal was called: those reported,
\* but for the one the machine is holding as Maximal
Discarded ==
    {Range(reported[i]) :
        i \in 1..(IF mec.state = "Maximal"
                  THEN Len(reported) - 1 ELSE Len(reported))}

\* C22: after discard_maximal was called on a maximal extension S, neither S
\* nor a superset of S is a solution in the rest of the enumeration: no
\* model the solver can give under the assumptions of the machine, and no
\* later extension of the machine, contains S.
C22_DiscardMaximalForbids ==
    pc \in {"pr_enum", "enumerated"} =>
        /\ mec.state \in {"Intermediate", "Maximal"} =>
              \A S \in Discarded : ~(S \subseteq Range(mec.current))
        /\ \A S \in Discarded :
              \A m \in solve_under_assumptions(solver, mec.assumptions) :
                  ~(S \subseteq Range(assignment_to_extension(m, solver.n_vars, cc)))

\* C22 witness: after a first extension of one argument was discarded, the
\* enumeration found another extension.
C22_Witness ==
    /\ pc = "pr_enum"
    /\ mec.state = "Maximal"
    /\ Len(reported) = 2
    /\ Len(reported[1]) = 1
    /\ Len(reported[2]) = 1

\* the clauses a step has added to the solver
AddedClauses ==
    [i \in 1..(Len(solver'.clauses) - Len(solver.clauses)) |->
        solver'.clauses[Len(solver.clauses) + i]]

\* the hooks a step of a driver has called: discard_maximal when compute_next
\* is called in Maximal, increase_current when a model was found, and
\* discard_current when discard_current_search was called
HooksCalled ==
    (IF mec.state = "Maximal" THEN 1 ELSE 0)
    + (IF mec'.state = "Intermediate" \/ calls'.last = "discard_current_search"
       THEN 1 ELSE 0)
    + (IF calls'.last = "discard_current_search" THEN 1 ELSE 0)

\* C23: each hook call adds exactly one clause, and the clause holds the
\* selector the hook was given, as its only selector and positively: in a
\* step of a driver the clauses added are one per hook called, besides the
\* unit clause of the selector of a round that is closed, and the clauses
\* of the encoding hold no selector.
C23_HookClausesHoldSelector ==
    [][(/\ pc \in {"pr_ds", "pr_max", "pr_enum"}
        /\ calls'.last \notin {"new", "none"}
        /\ solver' # solver) =>
            LET n2 == 2 * n_arguments(cc)
                closing == IF mec.state = "Maximal" THEN 1 ELSE 0
                given == {mec.selector, mec'.selector} \cup Range(mec'.locked)
                IsHookClause(c) ==
                    /\ c # <<>>
                    /\ c[Len(c)] \in given
                    /\ c[Len(c)] > n2
                    /\ \A k \in 1..(Len(c) - 1) : Abs(c[k]) <= n2
            IN /\ \A i \in 1..Len(solver.clauses) :
                     solver'.clauses[i] = solver.clauses[i]
               /\ Len(AddedClauses) = HooksCalled + closing
               /\ closing = 1 => AddedClauses[1] = <<mec.selector>>
               /\ \A i \in (closing + 1)..Len(AddedClauses) :
                     IsHookClause(AddedClauses[i])]_vars

\* C23 witness: the skeptical driver has called increase_current and
\* discard_current in a round, and both clauses end with the selector of
\* the round.
C23_Witness ==
    /\ pc = "pr_ds"
    /\ calls.last = "discard_current_search"
    /\ Len(solver.clauses) >= 2
    /\ LET n == Len(solver.clauses)
       IN /\ solver.clauses[n][Len(solver.clauses[n])] = mec.selector
          /\ solver.clauses[n - 1][Len(solver.clauses[n - 1])] = mec.selector
          /\ Len(solver.clauses[n]) >= 2

-----------------------------------------------------------------------------
(* The encoder with range variables, and the decoding of an Assignment *)

arg_id_to_range_var(n_args, id) == (n_args * 2 + id + 1) % 2^UsizeBits

first_range_var(n_args) == arg_id_to_range_var(n_args, 0)

\* as encode_range_constraint, but without the clause (-r or x or d)
encode_range_constraint_no_back(a, n_args) ==
    LET range_var == arg_id_to_range_var(n_args, a)
        arg_var == arg_id_to_solver_var(a)
        att_disj_var == arg_id_to_solver_disjunction_var(a)
    IN <<(<<-arg_var, range_var>>), (<<-att_disj_var, range_var>>)>>

encode_range_constraint(a, n_args) ==
    LET range_var == arg_id_to_range_var(n_args, a)
        arg_var == arg_id_to_solver_var(a)
        att_disj_var == arg_id_to_solver_disjunction_var(a)
    IN <<(<<-arg_var, range_var>>), (<<-att_disj_var, range_var>>),
         (<<-range_var, arg_var, att_disj_var>>)>>

encode_constraints_and_range(f, s) ==
    LET as == iter_args(f)
    IN add_clauses(reserve(s, n_arguments(f) * 3),
                   Flatten([i \in 1..Len(as) |->
                               encode_attack_constraints_for_arg(f, as[i])
                               \o encode_disjunction_var(f, as[i])
                               \o encode_range_constraint(as[i],
                                                          n_arguments(f))]))

\* how many variables of a model a solver may leave unassigned
MaxUnassigned == 2

\* an Assignment: for each variable 1..n, Some(true), Some(false) or None
AssignmentOf(m, n, unassigned) ==
    [v \in 1..n |-> IF v \in unassigned THEN "None"
                    ELSE IF v \in m THEN "Some(true)" ELSE "Some(false)"]

\* the pairs (var, Some(true)) the iterator of an Assignment yields
AssignedTrue(a) == {v \in DOMAIN a : a[v] = "Some(true)"}

Decoding(a, e) == [kind |-> "decoded", assignment |-> a, ext |-> e]

\* encode_constraints_and_range(af, solver) on a fresh solver
ENC_EncodeRange ==
    /\ pc = "ready"
    /\ solver' = encode_constraints_and_range(af, NewSolver)
    /\ pc' = "encoded_range"
    /\ UNCHANGED <<cmdVars, libVars, gr, cc, prVars, answer>>

\* assignment_to_extension(assignment, af) on a model of the solver, over
\* the 3n variables reserved
ENC_DecodeRange ==
    /\ pc = "encoded_range"
    /\ \E m \in solve(solver), u \in SUBSET (1..solver.n_vars) :
          /\ Cardinality(u) <= MaxUnassigned
          /\ LET a == AssignmentOf(m, solver.n_vars, u)
             IN answer' = Decoding(a, assignment_to_extension(
                                         AssignedTrue(a), Len(a), af))
    /\ pc' = "decoded_range"
    /\ UNCHANGED <<cmdVars, libVars, gr, cc, solver, prVars>>

NextRange == ENC_Encode \/ ENC_Solve \/ ENC_EncodeRange \/ ENC_DecodeRange

SpecRange == InitCO /\ [][NextRange]_vars

\* C24: in every model of the clauses of encode_constraints_and_range for a
\* framework of n arguments, the range variable 2n + id(a) + 1 of an argument
\* a is true exactly when a, or an attacker of a, is in the decoded
\* extension; first_range_var(n) is 2n + 1, the 3n variables are reserved,
\* and no range variable is a membership or an auxiliary variable.
C24_RangeVarIsRange ==
    pc = "encoded_range" =>
        LET n == n_arguments(af)
        IN /\ solver.n_vars = 3 * n
           /\ first_range_var(n) = 2 * n + 1
           /\ \A a, b \in af.args :
                 /\ arg_id_to_range_var(n, a) = 2 * n + a + 1
                 /\ arg_id_to_range_var(n, a) # arg_id_to_solver_var(b)
                 /\ arg_id_to_range_var(n, a)
                       # arg_id_to_solver_disjunction_var(b)
           /\ \A m \in solver.models : \A a \in af.args :
                 (2 * n + a + 1) \in m
                     <=> \/ a \in Decoded(m)
                         \/ AttackersOf(af, a) \cap Decoded(m) # {}

\* C24 witness: a model of a three-argument framework in which one argument
\* is in the range as a member, one as attacked only, and one is outside.
C24_Witness ==
    /\ pc = "encoded_range"
    /\ n_arguments(af) = 3
    /\ \E m \in solver.models : \E a, b, c \in af.args :
          /\ a \in Decoded(m) /\ (6 + a + 1) \in m
          /\ b \notin Decoded(m) /\ (6 + b + 1) \in m
          /\ (6 + c + 1) \notin m

\* C25: assignment_to_extension returns exactly the arguments i whose
\* membership variable 2(i+1) is assigned true, in increasing order:
\* variables assigned false or unassigned, odd variables and even variables
\* above 2n (the even range variables of an assignment over 3n variables)
\* give no argument, and every id looked up is the id of an argument.
C25_DecodingIsMembership ==
    pc = "decoded_range" =>
        /\ answer.kind = "decoded"
        /\ Len(answer.assignment) = 3 * n_arguments(af)
        /\ answer.ext = AscSeq({i \in af.args :
                                  answer.assignment[2 * (i + 1)] = "Some(true)"})
        /\ Range(answer.ext) \subseteq af.args

\* C25 witness: a decoded assignment over nine variables in which the even
\* range variable 8 is true, a membership variable is unassigned, another is
\* true, and an odd variable is true.
C25_Witness ==
    /\ pc = "decoded_range"
    /\ Len(answer.assignment) = 9
    /\ answer.assignment[8] = "Some(true)"
    /\ \E i, j \in af.args : /\ answer.assignment[2 * (i + 1)] = "None"
                             /\ answer.assignment[2 * (j + 1)] = "Some(true)"
    /\ \E v \in {1, 3, 5} : answer.assignment[v] = "Some(true)"
    /\ Len(answer.ext) = 1

-----------------------------------------------------------------------------
(* grounded_extension on longer chains, run to completion *)

MaxArgsGR == 5

MaxSpanGR == 1

MaxAttacksGR == 4

\* the frameworks of MaxArgsGR arguments with at most MaxAttacksGR attacks,
\* each joining arguments with ids at most MaxSpanGR apart
FrameworksGR ==
    LET n == MaxArgsGR
        pairs == {e \in (0..(n - 1)) \X (0..(n - 1)) :
                     Abs(e[1] - e[2]) <= MaxSpanGR}
    IN {NewAF(n, att) : att \in {A \in SUBSET pairs :
                                    Cardinality(A) <= MaxAttacksGR}}

InitGRLive ==
    /\ af \in FrameworksGR
    /\ Ready

\* a caller of the library calls grounded_extension(af)
GE_Call ==
    /\ pc = "ready"
    /\ IF GroundedInitPanics(af)
       THEN /\ pc' = "panicked"
            /\ UNCHANGED gr
       ELSE /\ gr' = GroundedInit(af)
            /\ pc' = "grounded"
    /\ UNCHANGED <<cmdVars, libVars, cc, solver, prVars, answer>>

\* the function returns ext
GE_Return ==
    /\ pc = "grounded"
    /\ ~GroundedRunning(gr)
    /\ answer' = SomeExt(gr.ext)
    /\ pc' = "done"
    /\ UNCHANGED <<cmdVars, libVars, gr, cc, solver, prVars>>

NextGE == GE_Call \/ GR_Iter \/ GE_Return

\* the function is sequential code: its loop and its return are taken as
\* long as they are possible
SpecGRLive ==
    InitGRLive /\ [][NextGE]_vars /\ WF_vars(GR_Iter) /\ WF_vars(GE_Return)

\* C26: grounded_extension terminates, and at every point of its run the
\* sequence it builds has no repetition and is no longer than the number of
\* arguments.
C26_GroundedTerminatesNoRepetition ==
    /\ [](pc \in {"grounded", "done"} =>
             /\ NoDup(gr.ext)
             /\ Len(gr.ext) <= n_arguments(af)
             /\ gr.n_processed_args <= Len(gr.ext))
    /\ (pc = "grounded" ~> pc = "done")

\* C26 witness: a finished run whose result holds an argument with two
\* attackers, each defeated by a different member of the result.
C26_Witness ==
    /\ pc = "done"
    /\ \E w, u1, u2 \in Range(gr.ext) : \E v1, v2 \in AttackersOf(af, w) :
          /\ v1 # v2 /\ u1 # u2
          /\ <<u1, v1>> \in af.att /\ <<u2, v2>> \in af.att
          /\ <<u1, v2>> \notin af.att /\ <<u2, v1>> \notin af.att

\* the attackers of w whose attacks the inner loop has gone through
DefeatedAttackers(f, st, w) == {v \in AttackersOf(f, w) : st.defeated_args[v]}

\* C29: between two iterations of the while loop, the counter of every
\* argument w is its number of attackers minus the attackers defeated so
\* far, plus one when the last of them pushed w instead of decrementing: the
\* counter of an attacked argument is never below 1, each attack on w is
\* gone through at most once, and once w is pushed all its attackers are
\* defeated.
C29_CounterNeverUnderflows ==
    pc \in {"grounded", "done"} =>
        \A w \in af.args :
            LET cnt == Cardinality(AttackersOf(af, w))
                seen == Cardinality(DefeatedAttackers(af, gr, w))
                pushed == cnt > 0 /\ Contains(gr.ext, w)
            IN /\ gr.attacked_by[w] >= (IF cnt = 0 THEN 0 ELSE 1)
               /\ gr.attacked_by[w] = cnt - seen + (IF pushed THEN 1 ELSE 0)
               /\ pushed <=> (cnt > 0 /\ seen = cnt)

\* C29 witness: a run in which a counter that started at 2 was decremented
\* to 1 in one iteration of the while loop, and the argument is not pushed
\* yet.
C29_Witness ==
    /\ pc = "grounded"
    /\ GroundedRunning(gr)
    /\ \E w \in af.args :
          /\ Cardinality(AttackersOf(af, w)) = 2
          /\ Cardinality(DefeatedAttackers(af, gr, w)) = 1
          /\ gr.attacked_by[w] = 1
          /\ ~Contains(gr.ext, w)

-----------------------------------------------------------------------------
(* The shortcut of is_skeptically_accepted_in_cc *)

\* the machine holds an Intermediate model on which the shortcut test is true
ShortcutDue ==
    /\ pc = "pr_ds"
    /\ mec.state = "Intermediate"
    /\ ~Contains(mec.current, get_argument(cc, af.label[arg]))
    /\ attacker_in_current(cc, get_argument(cc, af.label[arg]), mec.current)

\* C27: the two drivers differ only where the shortcut test is true, and
\* there they give the same status on the same answers of the SAT solver:
\* the driver with the shortcut never goes on from an Intermediate model on
\* which the test is true (it has returned false), and the driver without it
\* goes on from such a model only to another such model or to the return of
\* false; it never returns true.
C27_ShortcutKeepsAnswer ==
    /\ [](~with_certificate => ~ShortcutDue)
    /\ [][(with_certificate /\ ShortcutDue) =>
             \/ ShortcutDue'
             \/ /\ pc' = "pr_cc"
                /\ calls'.last = "take_current"
                /\ merged' # <<>>
                /\ ~Contains(merged', arg)]_vars

\* C27 witness: the driver without the shortcut holds an Intermediate model
\* on which the test is true and that is not a preferred extension yet, on a
\* framework where the argument is in no preferred extension.
C27_Witness ==
    /\ with_certificate
    /\ ShortcutDue
    /\ Range(mec.current) \notin PreferredExts(cc)
    /\ Len(mec.current) >= 1

-----------------------------------------------------------------------------
(* grounded_extension on a framework some arguments of which were removed *)

NextGERemoved == AF_RemoveArgument \/ GE_Call \/ GR_Iter \/ GE_Return

SpecGERemoved == InitRM /\ [][NextGERemoved]_vars

\* C28: on a framework from which arguments were removed, grounded_extension
\* never indexes its vectors out of range (the id of every live argument is
\* below their length af.n_arguments()), and it returns the grounded
\* extension of the remaining graph.
C28_GroundedSafeAfterRemoval ==
    /\ pc # "panicked"
    /\ pc \in {"grounded", "done"} =>
          \A a \in af.args : a \in DOMAIN gr.attacked_by
                              /\ a \in DOMAIN gr.defeated_args
    /\ pc = "done" => Range(gr.ext) = GroundedRef(af)

-----------------------------------------------------------------------------
(* Termination of the loop of is_skeptically_accepted_in_cc *)

\* is_skeptically_accepted_in_cc alone, from the call to the return
NextDSLoop == PR_Start \/ PR_DS_Step

\* every SAT call returns, and the loop is sequential code: a turn of the
\* loop is taken as long as the loop has not returned
SpecDSLive == InitPR /\ [][NextDSLoop]_vars /\ WF_vars(PR_DS_Step)

DecodedIn(ms) == {Range(assignment_to_extension(m, solver.n_vars, cc)) : m \in ms}

\* the extensions a search of the present round can still start from
UnblockedInRound ==
    DecodedIn(solve_under_assumptions(
                  solver, BaseAssumptions(mec.selector, mec.locked)))

\* C30: the loop of is_skeptically_accepted_in_cc returns: every turn that
\* does not return stays in the round and makes the extensions a search can
\* still find strictly fewer (the model found is forbidden for the rest of
\* the round), so the turns are finitely many.
C30_DriverLoopTerminates ==
    /\ [][(pc = "pr_ds" /\ pc' = "pr_ds") =>
             /\ mec'.selector = mec.selector
             /\ mec'.state \in {"Init", "Intermediate"}
             /\ UnblockedInRound' \subseteq UnblockedInRound
             /\ UnblockedInRound' # UnblockedInRound
             /\ mec'.state = "Intermediate" =>
                    Range(mec'.current) \in UnblockedInRound \ UnblockedInRound']_vars
    /\ (pc = "pr_ds" ~> pc # "pr_ds")

\* C30 witness: after an Intermediate model with the argument was discarded,
\* the search restarted and found another model, the third of the run.
C30_Witness ==
    /\ pc = "pr_ds"
    /\ mec.state = "Intermediate"
    /\ calls.last = "compute_next"
    /\ calls.from = "Init"
    /\ Len(solver.clauses) >= Len(encode_constraints(cc, NewSolver).clauses) + 3
    /\ mec.current # <<>>

=============================================================================
